---- MODULE Spec2Model ----
(***************************************************************************)
(* Model of the omnitils retrieval pipeline: the chunked, resumable file   *)
(* writer (omnitils/fetch/download.py), the Google Drive download flow     *)
(* that drives it (omnitils/api/gdrive.py), the rate-limit decorator       *)
(* (omnitils/rate_limit.py), the GitHub request handlers and retrieval     *)
(* flows (omnitils/api/github.py), the Google Drive resolver               *)
(* (omnitils/api/gdrive.py) and the archive unpacker                       *)
(* (omnitils/files/archive.py).                                            *)
(*                                                                         *)
(* Text is modelled as a sequence of one-character strings, a file as a    *)
(* record [exists, data] whose data is a sequence of bytes, a header map   *)
(* as a function from header names to text.                                *)
(***************************************************************************)
EXTENDS Integers, Sequences, FiniteSets, TLC

VARIABLES
    fs,       \* the filesystem: path -> [exists, data]
    dl,       \* the download call in flight (download_file, download_file_from_response, gdrive_download_file)
    now,      \* the clock read by time() and by the limiter
    events,   \* MemoryStorage.events: limit key -> timestamps of the registered hits, newest first
    th,       \* per thread: the position of its rate-limited / handler-wrapped call
    hits,     \* history: limit -> time -> the hits registered at that time
    issued,   \* history: limit -> time -> the request attempts issued at that time
    rs,       \* the Google Drive resolver: the gdrive_process_url call, its session and its cookie file
    gh,       \* the GitHub retrieval call in flight (gh_download_directory_files, gh_download_repository)
    ar        \* the unpack_archive call in flight and the archive it is given

dlVars == <<fs, dl>>
gateVars == <<now, events, th, hits, issued>>
flowVars == <<rs, gh, ar>>
vars == <<fs, dl, now, events, th, hits, issued, rs, gh, ar>>

(***************************************************************************)
(* Bounds                                                                  *)
(***************************************************************************)
MaxBody == 2      \* bytes served by one response
MaxFile == 2      \* bytes of a file that exists before the call
MaxChunk == 2     \* largest chunk_size passed by the caller

Bytes == {0, 1}

RECURSIVE SeqsUpTo(_, _)
SeqsUpTo(S, n) ==
    IF n = 0 THEN {<<>>}
    ELSE LET shorter == SeqsUpTo(S, n - 1)
         IN  shorter \cup {Append(s, x) : s \in {q \in shorter : Len(q) = n - 1}, x \in S}

(***************************************************************************)
(* Text helpers: the str operations the code uses                          *)
(***************************************************************************)
Digits == {"0", "1", "2", "3", "4", "5", "6", "7", "8", "9"}

DigitVal(c) ==
    CASE c = "0" -> 0 [] c = "1" -> 1 [] c = "2" -> 2 [] c = "3" -> 3 [] c = "4" -> 4
      [] c = "5" -> 5 [] c = "6" -> 6 [] c = "7" -> 7 [] c = "8" -> 8 [] c = "9" -> 9

DigitChar(n) ==
    CASE n = 0 -> "0" [] n = 1 -> "1" [] n = 2 -> "2" [] n = 3 -> "3" [] n = 4 -> "4"
      [] n = 5 -> "5" [] n = 6 -> "6" [] n = 7 -> "7" [] n = 8 -> "8" [] n = 9 -> "9"

\* str(n) for a non-negative integer
RECURSIVE str(_)
str(n) == IF n < 10 THEN <<DigitChar(n)>> ELSE Append(str(n \div 10), DigitChar(n % 10))

\* pat in s
Contains(s, pat) ==
    \E i \in 1..(Len(s) + 1) :
        /\ i + Len(pat) - 1 <= Len(s)
        /\ SubSeq(s, i, i + Len(pat) - 1) = pat

\* s[k:] (k counted from 0, as in Python)
SliceFrom(s, k) == SubSeq(s, k + 1, Len(s))

\* s.split(sep)[0]: the text before the first sep, all of s when sep does not occur
SplitFirst(s, sep) ==
    IF \E i \in 1..Len(s) : s[i] = sep
        THEN LET first == CHOOSE i \in 1..Len(s) : s[i] = sep /\ \A j \in 1..(i - 1) : s[j] # sep
             IN  SubSeq(s, 1, first - 1)
        ELSE s

\* ''.join(n for n in s if n.isdigit())
RECURSIVE OnlyDigits(_)
OnlyDigits(s) ==
    IF s = <<>> THEN <<>>
    ELSE IF Head(s) \in Digits THEN <<Head(s)>> \o OnlyDigits(Tail(s))
    ELSE OnlyDigits(Tail(s))

\* int(s) succeeds on a non-empty run of digits (the texts of the model hold no
\* sign, blank or underscore); on anything else it raises ValueError
IntParses(s) == s # <<>> /\ \A i \in 1..Len(s) : s[i] \in Digits

RECURSIVE IntValue(_)
IntValue(s) ==
    IF Len(s) = 1 THEN DigitVal(s[1])
    ELSE 10 * IntValue(SubSeq(s, 1, Len(s) - 1)) + DigitVal(s[Len(s)])

Max(a, b) == IF a >= b THEN a ELSE b
Min(a, b) == IF a <= b THEN a ELSE b

(***************************************************************************)
(* Files and header maps                                                   *)
(***************************************************************************)
NoFile == [exists |-> FALSE, data |-> <<>>]
File(data) == [exists |-> TRUE, data |-> data]
Files == {NoFile} \cup {File(d) : d \in SeqsUpTo(Bytes, MaxFile)}

\* "path" is the destination; "tmp0" a temporary file left by an earlier Drive
\* download; "tmp1" the temporary file NamedTemporaryFile creates
Paths == {"path", "tmp0", "tmp1"}

BytesEq == <<"b", "y", "t", "e", "s", "=">>

\* f"bytes={str(size)}-"
RangeFrom(n) == BytesEq \o str(n) \o <<"-">>

\* request_header_default.copy()
request_header_default == [k \in {"User-Agent"} |-> <<"M">>]

EmptyHeader == [k \in {} |-> <<>>]

WithRange(v) == [k \in {"User-Agent", "Range"} |-> IF k = "Range" THEN v ELSE <<"M">>]

\* Range values a caller or a server may put in a header map
RangeValues ==
    {RangeFrom(n) : n \in 0..(MaxFile + 1)}
        \cup {BytesEq \o <<"-", "1">>,              \* open start: bytes=-1
              BytesEq \o <<"x", "-">>,              \* non-numeric start
              BytesEq \o <<"1", "-", "2">>,         \* closed range bytes=1-2
              <<"x">> \o BytesEq \o <<"1", "-">>}   \* 'bytes=' not at the start

HeaderMaps == {EmptyHeader, request_header_default} \cup {WithRange(v) : v \in RangeValues}

\* Content-Length values a server may send (absent: no such key)
ContentLengths == {<<"0">>, <<"1">>, <<"9">>, <<"x">>, <<"-", "5">>}

ResponseHeaders ==
    {EmptyHeader}
        \cup {[k \in {"Content-Length"} |-> c] : c \in ContentLengths}
        \cup {[k \in {"Range"} |-> v] : v \in RangeValues}
        \cup {[k \in {"Content-Length", "Range"} |-> IF k = "Range" THEN RangeFrom(1) ELSE <<"1">>]}

\* a resume check that never compares the range with the size of the file
check_resume_file_any_size(file, headers) ==
    IF "Range" \in DOMAIN headers /\ file.exists
        THEN IF Contains(headers["Range"], BytesEq)
                THEN IF ~IntParses(SplitFirst(SliceFrom(headers["Range"], 6), "-"))
                         THEN "ValueError"
                         ELSE "True"
                ELSE "False"
        ELSE "False"

(***************************************************************************)
(* check_resume_file: "True", "False", or "ValueError" when int() raises   *)
(* (ValueError is not among the exceptions the function catches)           *)
(***************************************************************************)
check_resume_file(file, headers) ==
    IF "Range" \in DOMAIN headers /\ file.exists
        THEN IF Contains(headers["Range"], BytesEq)
                THEN LET status == SplitFirst(SliceFrom(headers["Range"], 6), "-")
                     IN  IF ~IntParses(status) THEN "ValueError"
                         ELSE IF IntValue(status) = Len(file.data) THEN "True"
                         ELSE "False"
                ELSE "False"
        ELSE "False"

(***************************************************************************)
(* estimate_content_length with default 0                                  *)
(***************************************************************************)
estimate_content_length(headers) ==
    IF "Content-Length" \in DOMAIN headers
        THEN LET digits == OnlyDigits(headers["Content-Length"])
             IN  IF digits = <<>> THEN 0 ELSE IntValue(digits)
        ELSE 0

(***************************************************************************)
(* The download call in flight                                             *)
(***************************************************************************)
\* pc: "idle" | "streaming" | "returned" | "raised"
\* fn: the function called; target: the path it writes; header: the header map
\* handed to check_resume_file; sent: the header map of the request; body: the
\* bytes the response serves; served: those the stream has delivered so far;
\* chunks: the chunks written; empty_seen: the stream has yielded an empty
\* chunk; pre, dest_pre, tmp_pre: the target, the destination and the left-over
\* temporary file as they were before the call; progress: the callback's
\* invocations as <<current, total>>; result: "path" or "None"
IdleCall ==
    [pc |-> "idle", fn |-> "none", target |-> "path", header |-> EmptyHeader,
     has_callback |-> FALSE, chunk_size |-> 1, write_mode |-> "none", total |-> 0,
     body |-> <<>>, served |-> <<>>, chunks |-> 0, empty_seen |-> FALSE,
     pre |-> NoFile, dest_pre |-> NoFile, tmp_pre |-> NoFile,
     allow_resume |-> FALSE, sent |-> EmptyHeader,
     progress |-> <<>>, err |-> "none", result |-> "none"]

\* the bodies a server may serve
Bodies == SeqsUpTo(Bytes, MaxBody)

Raise(call, e) == [call EXCEPT !.pc = "raised", !.err = e]

\* open(path, write_mode): 'wb' creates or truncates, 'ab' creates or keeps
Open(file, write_mode) ==
    IF write_mode = "ab" /\ file.exists THEN file ELSE File(<<>>)

\* the chunks iter_content(chunk_size) may yield next: the next bytes of the
\* body, at least one and at most chunk_size of them, or the empty chunk of a
\* truncated stream
NextChunks(call) ==
    LET left == SubSeq(call.body, Len(call.served) + 1, Len(call.body))
    IN  {SubSeq(left, 1, k) : k \in 0..Min(call.chunk_size, Len(left))}

\* the iterator raises StopIteration: every byte of the body was delivered
Exhausted(call) == call.served = call.body

\* a write that puts the chunk at the start of the file
WriteChunk_at_start(file, chunk) == File(chunk \o file.data)

\* one pass of the writing loop on a non-empty chunk: f.write(chunk), then the
\* callback with current = f.tell() and max(current, total)
WriteChunk(file, chunk) == File(file.data \o chunk)

\* a callback handed the estimated total as it is
CallbackArgs_raw_total(current, total) == <<current, total>>

CallbackArgs(current, total) == <<current, Max(current, total)>>

AfterChunk(call, written, chunk) ==
    [call EXCEPT !.served = @ \o chunk,
                 !.empty_seen = @ \/ chunk = <<>>,
                 !.chunks = @ + 1,
                 !.progress = IF call.has_callback
                                  THEN Append(@, CallbackArgs(Len(written.data), call.total))
                                  ELSE @]

\* a test that only looks for bad chunks when a callback is registered
BadChunk_with_callback(call, chunk) == chunk = <<>> /\ call.has_callback

\* 'if not chunk:', the test that raises OSError
BadChunk(call, chunk) == chunk = <<>>

(***************************************************************************)
(* download_file(url, path, header, callback, chunk_size)                  *)
(***************************************************************************)
\* up to the open(): the header default, the resume check, the GET and
\* raise_for_status (either may raise a RequestException), the total
download_file_call ==
    /\ dl.pc = "idle"
    /\ \E given \in HeaderMaps, has_callback \in BOOLEAN, chunk_size \in 1..MaxChunk,
          response \in ResponseHeaders, body \in Bodies, failed \in BOOLEAN :
        LET header == IF given = EmptyHeader THEN request_header_default ELSE given
            resume == check_resume_file(fs["path"], header)
            write_mode == IF resume = "True" THEN "ab" ELSE "wb"
            call == [IdleCall EXCEPT !.fn = "download_file", !.target = "path",
                                     !.header = header, !.sent = header,
                                     !.has_callback = has_callback, !.body = body,
                                     !.chunk_size = chunk_size, !.pre = fs["path"],
                                     !.dest_pre = fs["path"]]
        IN  IF resume = "ValueError"
                THEN /\ dl' = Raise(call, "ValueError")
                     /\ fs' = fs
            ELSE IF failed
                THEN /\ dl' = Raise(call, "RequestException")
                     /\ fs' = fs
            ELSE /\ dl' = [call EXCEPT !.pc = "streaming", !.write_mode = write_mode,
                                       !.total = IF has_callback
                                                     THEN estimate_content_length(response)
                                                     ELSE 0]
                 /\ fs' = [fs EXCEPT !["path"] = Open(@, write_mode)]
    /\ UNCHANGED <<gateVars, flowVars>>

(***************************************************************************)
(* download_file_from_response(response, path, callback, chunk_size)       *)
(***************************************************************************)
\* what the function does before its loop, as a record [call, file]:
\* raise_for_status, the total, the resume check on response.headers, open()
FromResponseStart(call, file, response, bad_status) ==
    LET resume == check_resume_file(file, response)
        write_mode == IF resume = "True" THEN "ab" ELSE "wb"
        begun == [call EXCEPT !.header = response]
    IN  IF bad_status THEN [call |-> Raise(begun, "RequestException"), file |-> file]
        ELSE IF resume = "ValueError" THEN [call |-> Raise(begun, "ValueError"), file |-> file]
        ELSE [call |-> [begun EXCEPT !.pc = "streaming", !.write_mode = write_mode,
                                     !.total = IF call.has_callback
                                                   THEN estimate_content_length(response)
                                                   ELSE 0],
              file |-> Open(file, write_mode)]

download_file_from_response_call ==
    /\ dl.pc = "idle"
    /\ \E has_callback \in BOOLEAN, chunk_size \in 1..MaxChunk,
          response \in ResponseHeaders, body \in Bodies, bad_status \in BOOLEAN :
        LET call == [IdleCall EXCEPT !.fn = "download_file_from_response",
                                     !.target = "path", !.has_callback = has_callback,
                                     !.body = body,
                                     !.chunk_size = chunk_size, !.pre = fs["path"],
                                     !.dest_pre = fs["path"]]
            start == FromResponseStart(call, fs["path"], response, bad_status)
        IN  /\ dl' = start.call
            /\ fs' = [fs EXCEPT !["path"] = start.file]
    /\ UNCHANGED <<gateVars, flowVars>>

\* one iteration of 'for chunk in iter_content(chunk_size)' in either function
write_chunk ==
    /\ dl.pc = "streaming"
    /\ dl.fn \in {"download_file", "download_file_from_response"}
    /\ \E chunk \in NextChunks(dl) :
        IF BadChunk(dl, chunk)
            THEN /\ dl' = Raise([dl EXCEPT !.empty_seen = TRUE], "OSError")
                 /\ fs' = fs
            ELSE LET written == WriteChunk(fs[dl.target], chunk)
                 IN  /\ fs' = [fs EXCEPT ![dl.target] = written]
                     /\ dl' = AfterChunk(dl, written, chunk)
    /\ UNCHANGED <<gateVars, flowVars>>

\* the iterator is exhausted: the with-blocks close and the path is returned
stream_exhausted ==
    /\ dl.pc = "streaming"
    /\ dl.fn \in {"download_file", "download_file_from_response"}
    /\ Exhausted(dl)
    /\ dl' = [dl EXCEPT !.pc = "returned", !.result = "path"]
    /\ UNCHANGED <<fs, gateVars, flowVars>>

(***************************************************************************)
(* gdrive_download_file(url, path, callback, headers, path_cookies,        *)
(*                      allow_resume, chunk_size)                          *)
(***************************************************************************)
\* get_temporary_file(path, ext='.drive', allow_existing): the slot it returns,
\* or "FileNotFoundError". With allow_existing it walks the files of the
\* directory and calls os.path.samefile(file, path) on each, which stats both
\* and raises when the destination does not exist yet; "tmp0" is the one file
\* whose name contains the temporary name. Without a usable file it creates a
\* new empty one, "tmp1".
get_temporary_file(files, allow_existing) ==
    IF allow_existing /\ (\E p \in {"path", "tmp0"} : files[p].exists)
        THEN IF ~files["path"].exists THEN "FileNotFoundError"
             ELSE IF files["tmp0"].exists THEN "tmp0"
             ELSE "tmp1"
        ELSE "tmp1"

\* the header map sent: 'headers or default', with Range set when size > 0
gdrive_headers(given, size) ==
    LET headers == IF given = EmptyHeader THEN request_header_default ELSE given
    IN  IF size > 0
            THEN [k \in DOMAIN headers \cup {"Range"} |->
                      IF k = "Range" THEN RangeFrom(size) ELSE headers[k]]
            ELSE headers

\* the call ends without a path: 'return logger.error(...)'
ReturnNone(call, e) == [call EXCEPT !.pc = "returned", !.result = "None", !.err = e]

\* the headers of the response gdrive_process_url hands back: a plain one, one
\* with a Content-Length, one that echoes a Range, one with a Range int() rejects
GdriveResponses ==
    {EmptyHeader, [k \in {"Content-Length"} |-> <<"1">>]}
        \cup {[k \in {"Range"} |-> RangeFrom(n)] : n \in 1..MaxFile}
        \cup {[k \in {"Range"} |-> BytesEq \o <<"x", "-">>]}

\* up to the writing loop of download_file_from_response
gdrive_download_file_call ==
    /\ dl.pc = "idle"
    /\ \E given \in {EmptyHeader, WithRange(RangeFrom(1))}, has_callback \in BOOLEAN,
          allow_resume \in BOOLEAN, chunk_size \in 1..MaxChunk,
          denied \in BOOLEAN, response \in GdriveResponses, body \in Bodies,
          bad_status \in BOOLEAN :
        LET slot == get_temporary_file(fs, allow_resume)
            call0 == [IdleCall EXCEPT !.fn = "gdrive_download_file",
                                      !.has_callback = has_callback,
                                      !.body = body, !.tmp_pre = fs["tmp0"],
                                      !.allow_resume = allow_resume,
                                      !.chunk_size = chunk_size,
                                      !.dest_pre = fs["path"]]
        IN  IF slot = "FileNotFoundError"
                THEN /\ dl' = Raise(call0, "FileNotFoundError")
                     /\ fs' = fs
            ELSE LET file == IF fs[slot].exists THEN fs[slot] ELSE File(<<>>)
                     size == Len(file.data)
                     call == [call0 EXCEPT !.target = slot, !.pre = file,
                                           !.sent = gdrive_headers(given, size)]
                     start == FromResponseStart(call, file, response, bad_status)
                 IN  IF denied
                         THEN /\ dl' = ReturnNone(call, "Denied")
                              /\ fs' = [fs EXCEPT ![slot] = file]
                     ELSE IF start.call.pc = "raised"
                         THEN /\ dl' = ReturnNone(start.call, start.call.err)
                              /\ fs' = [fs EXCEPT ![slot] = start.file]
                     ELSE /\ dl' = [start.call EXCEPT !.fn = "gdrive_download_file"]
                          /\ fs' = [fs EXCEPT ![slot] = start.file]
    /\ UNCHANGED <<gateVars, flowVars>>

\* one iteration of the loop inside the try of gdrive_download_file: the OSError
\* of a bad chunk is caught, logged, and the call returns None
gdrive_write_chunk ==
    /\ dl.pc = "streaming"
    /\ dl.fn = "gdrive_download_file"
    /\ \E chunk \in NextChunks(dl) :
        IF BadChunk(dl, chunk)
            THEN /\ dl' = ReturnNone([dl EXCEPT !.empty_seen = TRUE], "OSError")
                 /\ fs' = fs
            ELSE LET written == WriteChunk(fs[dl.target], chunk)
                 IN  /\ fs' = [fs EXCEPT ![dl.target] = written]
                     /\ dl' = AfterChunk(dl, written, chunk)
    /\ UNCHANGED <<gateVars, flowVars>>

\* the mutant of gdrive_move that moves the temporary file as soon as it is open
gdrive_move_unfinished ==
    /\ dl.pc = "streaming"
    /\ dl.fn = "gdrive_download_file"
    /\ fs' = [fs EXCEPT !["path"] = fs[dl.target], ![dl.target] = NoFile]
    /\ dl' = [dl EXCEPT !.pc = "returned", !.result = "path"]
    /\ UNCHANGED <<gateVars, flowVars>>

\* the stream is exhausted: shutil.move(file, path), return path
gdrive_move ==
    /\ dl.pc = "streaming"
    /\ dl.fn = "gdrive_download_file"
    /\ Exhausted(dl)
    /\ fs' = [fs EXCEPT !["path"] = fs[dl.target], ![dl.target] = NoFile]
    /\ dl' = [dl EXCEPT !.pc = "returned", !.result = "path"]
    /\ UNCHANGED <<gateVars, flowVars>>

(***************************************************************************)
(* The moving-window limiter behind rate_limit                             *)
(***************************************************************************)
Window == 1       \* the limits' expiry (one hour), in clock ticks
MaxTime == 2      \* the clock stops here
Quota60 == 1      \* hits per window of RateLimitItemPerHour(60), scaled down
Quota5000 == 2    \* hits per window of RateLimitItemPerHour(5000), scaled down

Threads == {"t1", "t2"}

\* _github_rate_limit and _github_rate_limit_authenticated; a limit item is
\* its own storage key (key_for() holds the amount, and no identifiers are passed)
Limits == {"_github_rate_limit", "_github_rate_limit_authenticated"}

Amount(limit) == IF limit = "_github_rate_limit" THEN Quota60 ELSE Quota5000

\* a storage that tests one entry too far before refusing
acquire_entry_refuses_late(entries, amount, timestamp) ==
    ~(Len(entries) >= amount + 1 /\ entries[amount + 1] >= timestamp - Window)

\* MemoryStorage.acquire_entry, as called by MovingWindowRateLimiter.hit: the
\* hit is refused when the amount-th newest entry is still inside the window
acquire_entry(entries, amount, timestamp) ==
    ~(Len(entries) >= amount /\ entries[amount] >= timestamp - Window)

\* the entry a successful hit adds, under the key of its limit
Register(store, limit, timestamp) ==
    [store EXCEPT ![limit] = <<timestamp>> \o @]

\* get_window_stats(limit).reset_time: the oldest entry inside the window (the
\* present when there is none) plus the expiry
reset_time(entries, timestamp) ==
    LET inside == {i \in 1..Len(entries) : entries[i] >= timestamp - Window}
    IN  (IF inside = {} THEN timestamp
         ELSE entries[CHOOSE i \in inside : \A j \in inside : j <= i]) + Window

(***************************************************************************)
(* rate_limit(limiter, limit, reschedule).wrapper, and the handlers        *)
(***************************************************************************)
max_tries == 2

\* pc: "idle" | "hit" | "stats" | "sleep" | "sleeping" | "func" | "done" | "raised"
\* kind: "rate_limit" (a function wrapped by rate_limit alone) or "gh" (a
\* request under a GitHub handler);
\* window: the reset_time read; wake: when the sleep ends; ran: executions of
\* the wrapped function; outcomes: the outcome of each attempt of the request;
\* full: the window was full at the last hit; hit_at: when this call's hit
\* was registered, -1 before
IdleThread ==
    [pc |-> "idle", kind |-> "none", fn |-> "none", token |-> FALSE,
     handler |-> "none", limit |-> "_github_rate_limit", reschedule |-> TRUE,
     window |-> 0, wake |-> 0, ran |-> 0, outcomes |-> <<>>,
     full |-> FALSE, hit_at |-> -1, err |-> "none"]

\* the hits of a limit inside the window that ends now
RECURSIVE Sum(_, _)
Sum(f, S) == IF S = {} THEN 0 ELSE LET x == CHOOSE x \in S : TRUE IN f[x] + Sum(f, S \ {x})

HitsInWindow(limit, timestamp) ==
    Sum(hits[limit], {at \in 0..MaxTime : at >= timestamp - Window /\ at <= timestamp})

Count(history, limit, at) == [history EXCEPT ![limit][at] = @ + 1]

\* a function decorated with rate_limit is called
rate_limit_call(t) ==
    /\ th[t].pc = "idle"
    /\ \E limit \in Limits, reschedule \in BOOLEAN :
        th' = [th EXCEPT ![t] = [IdleThread EXCEPT !.pc = "hit", !.kind = "rate_limit",
                                                   !.limit = limit,
                                                   !.reschedule = reschedule]]
    /\ UNCHANGED <<dlVars, flowVars, now, events, hits, issued>>

\* 'handler or (gh_request_handler if auth_token else gh_request_handler_authenticated)'
default_handler(token) ==
    IF token THEN "gh_request_handler" ELSE "gh_request_handler_authenticated"

\* the limit a handler's rate_limit decorator is built with
handler_limit(handler) ==
    IF handler = "gh_request_handler" THEN "_github_rate_limit"
    ELSE "_github_rate_limit_authenticated"

\* gh_get_data_json / gh_download_file without a custom handler: the handler is
\* chosen and applied to _make_request, and the wrapper is called.
\* gh_request_handler_authenticated applies @sleep_and_retry, a name the module
\* never imports or defines: applying it raises NameError.
gh_call(t) ==
    /\ th[t].pc = "idle"
    /\ \E fn \in {"gh_get_data_json", "gh_download_file"}, token \in BOOLEAN :
        LET handler == default_handler(token)
            call == [IdleThread EXCEPT !.kind = "gh", !.fn = fn, !.token = token,
                                       !.handler = handler,
                                       !.limit = handler_limit(handler)]
        IN  th' = [th EXCEPT ![t] =
                IF handler = "gh_request_handler_authenticated"
                    THEN [call EXCEPT !.pc = "raised", !.err = "NameError"]
                    ELSE [call EXCEPT !.pc = "hit"]]
    /\ UNCHANGED <<dlVars, flowVars, now, events, hits, issued>>

\* a wrapper that runs the function on a refused hit
AfterHit_always_runs(call, ok) ==
    IF ok \/ ~call.reschedule THEN [call EXCEPT !.pc = "func"]
    ELSE [call EXCEPT !.pc = "stats"]

\* what the wrapper does with the result of limiter.hit
AfterHit(call, ok) ==
    IF ok THEN [call EXCEPT !.pc = "func"]
    ELSE IF call.reschedule THEN [call EXCEPT !.pc = "stats"]
    ELSE [call EXCEPT !.pc = "raised", !.err = "RateLimitError"]

\* limiter.hit(limit): one atomic step of the storage
hit(t) ==
    /\ th[t].pc = "hit"
    /\ LET limit == th[t].limit
           ok == acquire_entry(events[limit], Amount(limit), now)
           seen == [th[t] EXCEPT !.full = HitsInWindow(limit, now) >= Amount(limit),
                                 !.hit_at = IF ok THEN now ELSE @]
       IN  /\ th' = [th EXCEPT ![t] = AfterHit(seen, ok)]
           /\ events' = IF ok THEN Register(events, limit, now) ELSE events
           /\ hits' = IF ok THEN Count(hits, limit, now) ELSE hits
    /\ UNCHANGED <<dlVars, flowVars, now, issued>>

\* window = limiter.get_window_stats(limit)
window_stats(t) ==
    /\ th[t].pc = "stats"
    /\ th' = [th EXCEPT ![t].pc = "sleep",
                        ![t].window = reset_time(events[th[t].limit], now)]
    /\ UNCHANGED <<dlVars, flowVars, now, events, hits, issued>>

\* sleep(window.reset_time - time()): time() is read now; time.sleep raises
\* ValueError on a negative length
sleep(t) ==
    /\ th[t].pc = "sleep"
    /\ th' = [th EXCEPT ![t] =
            IF th[t].window - now < 0
                THEN [@ EXCEPT !.pc = "raised", !.err = "ValueError"]
                ELSE [@ EXCEPT !.pc = "sleeping", !.wake = th[t].window, !.window = 0]]
    /\ UNCHANGED <<dlVars, flowVars, now, events, hits, issued>>

\* the sleep is over: back to 'while not limiter.hit(...)'
wake(t) ==
    /\ th[t].pc = "sleeping"
    /\ now >= th[t].wake
    /\ th' = [th EXCEPT ![t].pc = "hit", ![t].wake = 0]
    /\ UNCHANGED <<dlVars, flowVars, now, events, hits, issued>>

\* 'return func(*args, **kwargs)' of a function wrapped by rate_limit alone
run_func(t) ==
    /\ th[t].pc = "func"
    /\ th[t].kind = "rate_limit"
    /\ th' = [th EXCEPT ![t].pc = "done", ![t].ran = @ + 1]
    /\ UNCHANGED <<dlVars, flowVars, now, events, hits, issued>>

\* a retry loop that retries after any exception
AfterAttempt_retries_all(call, outcome, max_time_exceeded) ==
    IF outcome = "ok" THEN [call EXCEPT !.pc = "done"]
    ELSE IF Len(call.outcomes) = max_tries \/ max_time_exceeded
        THEN [call EXCEPT !.pc = "raised", !.err = outcome]
    ELSE call

\* on_exception(expo, RequestException, max_tries=2, max_time=1) after one
\* attempt: return, give up and re-raise, or go round again
AfterAttempt(call, outcome, max_time_exceeded) ==
    IF outcome = "ok" THEN [call EXCEPT !.pc = "done"]
    ELSE IF outcome # "RequestException" THEN [call EXCEPT !.pc = "raised", !.err = outcome]
    ELSE IF Len(call.outcomes) = max_tries \/ max_time_exceeded
        THEN [call EXCEPT !.pc = "raised", !.err = outcome]
    ELSE call

\* how one execution of _make_request ends: download_file and requests.get
\* return, raise a RequestException, or (download_file) raise the OSError of a
\* truncated stream
Outcomes(fn) ==
    IF fn = "gh_download_file" THEN {"ok", "RequestException", "OSError"}
    ELSE {"ok", "RequestException"}

\* one attempt of the request inside the retry loop
attempt(t) ==
    /\ th[t].pc = "func"
    /\ th[t].kind = "gh"
    /\ \E outcome \in Outcomes(th[t].fn), max_time_exceeded \in BOOLEAN :
        LET tried == [th[t] EXCEPT !.ran = @ + 1, !.outcomes = Append(@, outcome)]
        IN  th' = [th EXCEPT ![t] = AfterAttempt(tried, outcome, max_time_exceeded)]
    /\ issued' = Count(issued, th[t].limit, now)
    /\ UNCHANGED <<dlVars, flowVars, now, events, hits>>

\* the call is over; the thread may call again
finish(t) ==
    /\ th[t].pc \in {"done", "raised"}
    /\ th' = [th EXCEPT ![t] = IdleThread]
    /\ UNCHANGED <<dlVars, flowVars, now, events, hits, issued>>

\* the clock advances
Tick ==
    /\ now < MaxTime
    /\ now' = now + 1
    /\ UNCHANGED <<dlVars, flowVars, events, th, hits, issued>>

(***************************************************************************)
(* The Google Drive resolver (omnitils/api/gdrive.py)                      *)
(*                                                                         *)
(* A page is the sequence of its lines (contents.splitlines()); a line is  *)
(* the set of the GoogleReg patterns that match it. The text a pattern     *)
(* captures is named by the pattern and the line it was found on.          *)
(***************************************************************************)
MaxLines == 2       \* lines of a page given to gdrive_get_confirmation_url
MaxRequests == 3    \* the request counter stops counting here; the resolver does not

GooglePatterns == {"EXPORT", "FORM", "URL", "ERROR"}
UrlPatterns == {"EXPORT", "FORM", "URL"}
Lines == SUBSET GooglePatterns
Pages == SeqsUpTo(Lines, MaxLines)

\* decode_url: the URL object of a captured text, after the host prefixed to it
decode_url(host, pattern, line) == [host |-> host, pattern |-> pattern, line |-> line]
CallerUrl == decode_url("", "caller", 0)
NoUrl == decode_url("", "none", 0)

\* OSError messages: the caption captured on a line, or the fixed message
Caption(line) == [caption |-> TRUE, line |-> line]
PrivateOrLimit == [caption |-> FALSE, line |-> 0]
NoMessage == [caption |-> FALSE, line |-> -1]

Found(by, url) == [raised |-> FALSE, by |-> by, url |-> url, msg |-> NoMessage]
Refused(by, msg) == [raised |-> TRUE, by |-> by, url |-> NoUrl, msg |-> msg]
NotScanned == [raised |-> FALSE, by |-> "none", url |-> NoUrl, msg |-> NoMessage]

\* the mutant of gdrive_get_confirmation_url that ignores the error caption
gdrive_get_confirmation_url_without_caption(contents) ==
    LET linked == {i \in 1..Len(contents) : contents[i] \cap UrlPatterns # {}}
    IN  IF linked = {} THEN Refused("none", PrivateOrLimit)
        ELSE LET i == CHOOSE k \in linked : \A j \in linked : k <= j
             IN  IF "EXPORT" \in contents[i] THEN Found("EXPORT", decode_url("docs.google.com", "EXPORT", i))
                 ELSE IF "FORM" \in contents[i] THEN Found("FORM", decode_url("", "FORM", i))
                 ELSE Found("URL", decode_url("", "URL", i))

\* the for loop of gdrive_get_confirmation_url from line i on: the first line
\* that matches any pattern decides, by the order of the tests on that line
RECURSIVE ScanLines(_, _)
ScanLines(contents, i) ==
    IF i > Len(contents) THEN Refused("none", PrivateOrLimit)
    ELSE IF "EXPORT" \in contents[i] THEN Found("EXPORT", decode_url("docs.google.com", "EXPORT", i))
    ELSE IF "FORM" \in contents[i] THEN Found("FORM", decode_url("", "FORM", i))
    ELSE IF "URL" \in contents[i] THEN Found("URL", decode_url("", "URL", i))
    ELSE IF "ERROR" \in contents[i] THEN Refused("ERROR", Caption(i))
    ELSE ScanLines(contents, i + 1)

gdrive_get_confirmation_url(contents) == ScanLines(contents, 1)

\* Cookies: a jar is a set of <<key, value>> pairs with one pair per key; a
\* key is the sequence of its prefix and its rest
NID == <<"NID">>
WarningKey == <<"download_warning_", "id">>
startswith(k, prefix) == k[1] = prefix
SetCookie(jar, c) == {o \in jar : o[1] # c[1]} \cup {c}
SetCookies == {<<NID, "a">>, <<NID, "b">>, <<WarningKey, "a">>}

NoCookieFile == [exists |-> FALSE, pairs |-> {}]
CookieFile(pairs) == [exists |-> TRUE, pairs |-> pairs]
CookieFiles == {NoCookieFile, CookieFile({}), CookieFile({<<NID, "a">>}), CookieFile({<<WarningKey, "a">>})}
CookiePaths == {"None", "cookies.json", "cookies.toml", "cookies.txt"}
supported_data_types == {".json", ".toml", ".yaml", ".yml"}
suffix(path) ==
    CASE path = "cookies.json" -> ".json"
      [] path = "cookies.toml" -> ".toml"
      [] OTHER -> ".txt"

\* the mutant of Persisted that keeps every cookie
Persisted_unfiltered(jar) == jar

\* the list gdrive_update_cookies hands to dump_data_file
Persisted(jar) == {c \in jar : ~startswith(c[1], "download_warning_")}

\* dump_data_file(obj, path): the file afterwards and the error raised.
\* An unsupported suffix raises before the file is opened; tomlkit dumps
\* mappings only, so the list fails after open(path, "w") truncated the file.
dump_data_file(obj, path, file) ==
    IF suffix(path) \notin supported_data_types
        THEN [file |-> file, err |-> "ValueError"]
    ELSE IF suffix(path) = ".toml"
        THEN [file |-> CookieFile({}), err |-> "OSError"]
    ELSE [file |-> CookieFile(obj), err |-> "none"]

gdrive_update_cookies(cookies, path, file) == dump_data_file(Persisted(cookies), path, file)

\* get_new_session: a session whose jar holds the pairs of the cookie file
get_new_session(path, file) ==
    IF path # "None" /\ file.exists THEN file.pairs ELSE {}

NoResponse == [n |-> 0, disposition |-> FALSE, text |-> <<>>]
IdleResolver == [
    pc |-> "idle",
    path_cookies |-> "None",
    file |-> NoCookieFile,
    cookies |-> {},
    url |-> CallerUrl,
    requests |-> 0,
    res |-> NoResponse,
    found |-> NotScanned,
    reason |-> NoMessage,
    err |-> "none"]

\* the pages the server answers with: every page of at most one line, an
\* error caption above a download URL, and a caption on the second line
ServedPages == SeqsUpTo(Lines, 1) \cup {<<{"ERROR"}, {"URL"}>>, <<{}, {"ERROR"}>>}

\* gdrive_process_url(url, path_cookies=...) is called without a session
gdrive_process_url_call ==
    /\ rs.pc = "idle"
    /\ rs' = [rs EXCEPT !.pc = "request",
                        !.cookies = get_new_session(rs.path_cookies, rs.file)]
    /\ UNCHANGED <<dlVars, gateVars, gh, ar>>

\* what follows the response of one request: the cookie update, the test on
\* Content-Disposition, and the scan of the page. An error raised in the
\* outermost call leaves it; inside a recursive call it is caught by the
\* except clause of the call that recursed.
AfterResponse(call, response, set_cookie) ==
    LET n == Min(call.requests + 1, MaxRequests)
        cookies == IF set_cookie = {} THEN call.cookies
                   ELSE SetCookie(call.cookies, CHOOSE c \in set_cookie : TRUE)
        dump == IF call.path_cookies = "None" THEN [file |-> call.file, err |-> "none"]
                ELSE gdrive_update_cookies(cookies, call.path_cookies, call.file)
        found == gdrive_get_confirmation_url(response.text)
        got == [call EXCEPT !.requests = n,
                            !.cookies = cookies,
                            !.file = dump.file,
                            !.res = [n |-> n, disposition |-> response.disposition,
                                     text |-> response.text]]
    IN  IF dump.err # "none"
            THEN IF call.requests = 0
                     THEN [got EXCEPT !.pc = "raised", !.err = dump.err]
                     ELSE [got EXCEPT !.pc = "Denied", !.err = dump.err]
        ELSE IF response.disposition
            THEN [got EXCEPT !.pc = "DirectDownload"]
        ELSE IF found.raised
            THEN [got EXCEPT !.pc = "Denied", !.found = found, !.reason = found.msg,
                             !.err = "OSError"]
        ELSE [got EXCEPT !.pc = "request", !.found = found, !.url = found.url]

\* one hop: sess.get(str(url)) and everything up to the next request
gdrive_process_url_hop ==
    /\ rs.pc = "request"
    /\ \E disposition \in BOOLEAN, text \in ServedPages, set_cookie \in {{}} \cup {{c} : c \in SetCookies} :
          /\ disposition => text = <<>>
          /\ rs' = AfterResponse(rs, [disposition |-> disposition, text |-> text], set_cookie)
    /\ UNCHANGED <<dlVars, gateVars, gh, ar>>

\* gdrive_get_confirmation_url applied to a page
scan_page ==
    /\ rs.pc = "page"
    /\ rs' = [rs EXCEPT !.pc = "scanned", !.found = gdrive_get_confirmation_url(rs.res.text)]
    /\ UNCHANGED <<dlVars, gateVars, gh, ar>>

(***************************************************************************)
(* Idle values of the retrieval flows                                      *)
(***************************************************************************)
NoPath == [parent |-> "none", name |-> <<>>]
IdleFlow == [
    pc |-> "idle",
    fn |-> "none",
    token |-> FALSE,
    handler |-> "none",
    file_type |-> <<>>,
    listing |-> "none",
    data |-> <<>>,
    i |-> 1,
    outcomes |-> <<>>,
    tried |-> <<>>,
    files |-> <<>>,
    archive |-> <<>>,
    temp_file |-> FALSE,
    extracted |-> FALSE,
    result |-> NoPath,
    err |-> "none"]
NoResult == [kind |-> "none", path |-> <<>>]
IdleUnpack == [
    pc |-> "idle",
    path |-> <<>>,
    remove |-> TRUE,
    pre |-> NoFile,
    file |-> NoFile,
    action |-> "none",
    took_lock |-> FALSE,
    tools |-> 0,
    tool |-> "none",
    library |-> 0,
    outputs |-> {},
    result |-> NoResult,
    err |-> "none"]
IdleArchive == [lock |-> "free", call |-> [t \in Threads |-> IdleUnpack]]

FlowIdle ==
    /\ rs = IdleResolver
    /\ gh = IdleFlow
    /\ ar = IdleArchive

(***************************************************************************)
(* Specifications of the download flows                                    *)
(***************************************************************************)
GateIdle ==
    /\ now = 0
    /\ events = [l \in Limits |-> <<>>]
    /\ th = [t \in Threads |-> IdleThread]
    /\ hits = [l \in Limits |-> [at \in 0..MaxTime |-> 0]]
    /\ issued = [l \in Limits |-> [at \in 0..MaxTime |-> 0]]

\* download_file / download_file_from_response on a destination that holds
\* any file, or none
Init ==
    /\ \E f \in Files : fs = [p \in Paths |-> IF p = "path" THEN f ELSE NoFile]
    /\ dl = IdleCall
    /\ GateIdle
    /\ FlowIdle

Next ==
    \/ download_file_call
    \/ download_file_from_response_call
    \/ write_chunk
    \/ stream_exhausted

Spec == Init /\ [][Next]_vars

\* gdrive_download_file with any destination and any temporary file left behind
InitGdrive ==
    /\ \E f \in {NoFile, File(<<1>>)}, t \in Files :
          fs = [p \in Paths |-> IF p = "path" THEN f ELSE IF p = "tmp0" THEN t ELSE NoFile]
    /\ dl = IdleCall
    /\ GateIdle
    /\ FlowIdle

NextGdrive ==
    \/ gdrive_download_file_call
    \/ gdrive_write_chunk
    \/ gdrive_move

SpecGdrive == InitGdrive /\ [][NextGdrive]_vars

(***************************************************************************)
(* Claims about the chunked writer                                         *)
(***************************************************************************)
IsRange(header, n) ==
    "Range" \in DOMAIN header /\ header["Range"] = RangeFrom(n)

\* C1: download_file into a destination that is not being resumed: while the
\* loop runs the destination holds exactly the chunks delivered so far, in
\* stream order; the call returns only once the stream is exhausted, and then
\* the destination holds the whole response body, whatever Content-Length said.
C1_RoundTrip ==
    (dl.fn = "download_file" /\ dl.write_mode = "wb") =>
        /\ dl.pc \in {"streaming", "returned"} => fs["path"] = File(dl.served)
        /\ dl.pc = "returned" => dl.served = dl.body /\ fs["path"] = File(dl.body)

\* a fresh download over an existing file, written in two chunks, with a
\* Content-Length that is too small
C1_Witness ==
    /\ dl.fn = "download_file" /\ dl.pc = "returned" /\ dl.write_mode = "wb"
    /\ dl.chunks = 2 /\ dl.has_callback /\ dl.total = 1
    /\ dl.pre.exists /\ dl.pre.data # <<>>

\* C2: download_file with 'Range: bytes=N-' and a destination of size exactly
\* N appends (the first N bytes stay, the size is N plus the bytes served);
\* with no Range header, no file, or a size different from N it truncates.
C2_ResumeOrTruncate ==
    (dl.fn = "download_file" /\ dl.write_mode # "none") =>
        LET resuming == \E n \in 0..(MaxFile + 1) :
                            IsRange(dl.header, n) /\ dl.pre.exists /\ Len(dl.pre.data) = n
            plain == "Range" \notin DOMAIN dl.header
                         \/ \E n \in 0..(MaxFile + 1) : IsRange(dl.header, n)
        IN  /\ resuming =>
                /\ dl.write_mode = "ab"
                /\ fs["path"] = File(dl.pre.data \o dl.served)
            /\ (plain /\ ~resuming) =>
                /\ dl.write_mode = "wb"
                /\ fs["path"] = File(dl.served)

\* a resumed download that has appended bytes to a file of MaxFile bytes
C2_Witness ==
    /\ dl.fn = "download_file" /\ dl.pc = "returned" /\ dl.write_mode = "ab"
    /\ IsRange(dl.header, MaxFile) /\ Len(dl.pre.data) = MaxFile
    /\ Len(dl.served) > 0
    /\ Len(fs["path"].data) = MaxFile + Len(dl.served)

\* C4: in download_file and download_file_from_response, once the stream has
\* yielded an empty chunk the call has ended with the truncated-stream OSError,
\* with or without a callback; it is never still running and never returns.
C4_EmptyChunkRaises ==
    (dl.fn \in {"download_file", "download_file_from_response"} /\ dl.empty_seen) =>
        dl.pc = "raised" /\ dl.err = "OSError"

\* an empty chunk mid-stream, after a chunk was written, with no callback
C4_Witness ==
    /\ dl.fn = "download_file_from_response" /\ dl.empty_seen
    /\ ~dl.has_callback /\ dl.chunks = 1 /\ dl.err = "OSError"

\* C5: the callback runs once after each chunk written; 'current' never
\* decreases between two invocations and 'total' >= 'current' in each.
C5_Progress ==
    (dl.fn \in {"download_file", "download_file_from_response"}) =>
        /\ Len(dl.progress) = IF dl.has_callback THEN dl.chunks ELSE 0
        /\ dl.progress # <<>> =>
               dl.progress[Len(dl.progress)][1] = Len(fs["path"].data)
        /\ \A i \in 1..Len(dl.progress) : dl.progress[i][2] >= dl.progress[i][1]
        /\ \A i, j \in 1..Len(dl.progress) :
            i < j => dl.progress[i][1] <= dl.progress[j][1]

\* a resumed download with two callbacks whose Content-Length (1) is below
\* the bytes already on disk
C5_Witness ==
    /\ dl.fn = "download_file" /\ dl.write_mode = "ab" /\ dl.has_callback
    /\ Len(dl.progress) = 2 /\ dl.total = 1
    /\ dl.progress[1][1] > dl.total

(***************************************************************************)
(* Claims about the Google Drive download                                  *)
(***************************************************************************)
\* C3: gdrive_download_file with allow_resume and a partial temporary file of
\* N > 0 bytes requests 'Range: bytes=N-' and appends: the file moved to the
\* destination holds those N bytes followed by the bytes served.
C3_GdriveResumeAppends ==
    (/\ dl.fn = "gdrive_download_file" /\ dl.allow_resume
     /\ dl.tmp_pre.exists /\ Len(dl.tmp_pre.data) > 0
     /\ dl.pc = "returned" /\ dl.result = "path") =>
        /\ IsRange(dl.sent, Len(dl.tmp_pre.data))
        /\ fs["path"] = File(dl.tmp_pre.data \o dl.served)

(***************************************************************************)
(* Specification of the rate-limited calls                                 *)
(***************************************************************************)
InitGate ==
    /\ fs = [p \in Paths |-> NoFile]
    /\ dl = IdleCall
    /\ GateIdle
    /\ FlowIdle

\* functions wrapped by rate_limit, called from two threads
NextGate ==
    \/ \E t \in Threads :
        \/ rate_limit_call(t)
        \/ hit(t)
        \/ window_stats(t)
        \/ sleep(t)
        \/ wake(t)
        \/ run_func(t)
        \/ finish(t)
    \/ Tick

SpecGate == InitGate /\ [][NextGate]_vars

\* gh_get_data_json and gh_download_file with the default handlers, called
\* from two threads
NextGithub ==
    \/ \E t \in Threads :
        \/ gh_call(t)
        \/ hit(t)
        \/ window_stats(t)
        \/ sleep(t)
        \/ wake(t)
        \/ attempt(t)
        \/ finish(t)
    \/ Tick

SpecGithub == InitGate /\ [][NextGithub]_vars

(***************************************************************************)
(* Claims about rate_limit                                                 *)
(***************************************************************************)
\* C6: rate_limit without reschedule: a call whose hit found the window full
\* (N hits of a limit of N registered inside it) has raised RateLimitError and
\* has not run the wrapped function; the function runs at most once per call
\* and only when the hit of that call was registered.
C6_RefusedCallRaises ==
    \A t \in Threads :
        (th[t].kind = "rate_limit" /\ ~th[t].reschedule) =>
            /\ (th[t].full /\ th[t].pc # "hit") =>
                   th[t].pc = "raised" /\ th[t].err = "RateLimitError" /\ th[t].ran = 0
            /\ th[t].err = "RateLimitError" => th[t].full
            /\ th[t].pc \in {"func", "done"} =>
                   th[t].hit_at >= 0 /\ hits[th[t].limit][th[t].hit_at] >= 1
            /\ th[t].ran = IF th[t].pc = "done" THEN 1 ELSE 0

\* the third call on the limit of two hits per window is refused
C6_Witness ==
    \E t \in Threads :
        /\ th[t].kind = "rate_limit" /\ ~th[t].reschedule
        /\ th[t].limit = "_github_rate_limit_authenticated"
        /\ th[t].pc = "raised" /\ th[t].err = "RateLimitError"
        /\ HitsInWindow(th[t].limit, now) = Amount(th[t].limit)

\* C7: rate_limit with reschedule: a call made while the quota is exhausted
\* raises no error of its own, whatever the clock and the other callers do
\* between reading the window statistics and sleeping.
C7_RescheduleNeverRaises ==
    \A t \in Threads :
        (th[t].kind = "rate_limit" /\ th[t].reschedule) => th[t].pc # "raised"

C8_QuotaByToken ==
    \A t \in Threads :
        th[t].kind = "gh" =>
            /\ th[t].limit = IF th[t].token THEN "_github_rate_limit_authenticated"
                             ELSE "_github_rate_limit"
            /\ th[t].err # "NameError"

\* C10: a handler-wrapped call executes the request at most max_tries = 2
\* times; an attempt is followed by another only when it raised a
\* RequestException; a RequestException on the last allowed attempt, and any
\* other failure on any attempt, propagates at once.
C10_BoundedRetry ==
    \A t \in Threads :
        th[t].kind = "gh" =>
            LET o == th[t].outcomes
                k == Len(th[t].outcomes)
            IN  /\ k <= max_tries
                /\ th[t].ran = k
                /\ \A i \in 1..(k - 1) : o[i] = "RequestException"
                /\ (k > 0 /\ o[k] = "OSError") =>
                       th[t].pc = "raised" /\ th[t].err = "OSError"
                /\ (k = max_tries /\ o[k] = "RequestException") =>
                       th[t].pc = "raised" /\ th[t].err = "RequestException"
                /\ (k > 0 /\ o[k] = "ok") => th[t].pc = "done"

\* the request failed twice with a RequestException, which reached the caller
C10_Witness ==
    \E t \in Threads :
        /\ th[t].kind = "gh" /\ th[t].fn = "gh_download_file"
        /\ th[t].outcomes = <<"RequestException", "RequestException">>
        /\ th[t].pc = "raised" /\ th[t].err = "RequestException"

(***************************************************************************)
(* Specifications of the Google Drive resolver                             *)
(***************************************************************************)
\* gdrive_get_confirmation_url on any page of at most MaxLines lines
InitScan ==
    /\ fs = [p \in Paths |-> NoFile]
    /\ dl = IdleCall
    /\ GateIdle
    /\ \E text \in Pages :
          rs = [IdleResolver EXCEPT !.pc = "page", !.res = [NoResponse EXCEPT !.text = text]]
    /\ gh = IdleFlow
    /\ ar = IdleArchive

NextScan == scan_page

SpecScan == InitScan /\ [][NextScan]_vars

\* gdrive_process_url with or without a cookie path, whose file holds any of
\* CookieFiles. Every request is answered, and the call runs on once it is.
InitResolver ==
    /\ fs = [p \in Paths |-> NoFile]
    /\ dl = IdleCall
    /\ GateIdle
    /\ \E path \in CookiePaths, file \in CookieFiles :
          rs = [IdleResolver EXCEPT !.path_cookies = path, !.file = file]
    /\ gh = IdleFlow
    /\ ar = IdleArchive

NextResolver ==
    \/ gdrive_process_url_call
    \/ gdrive_process_url_hop

SpecResolver == InitResolver /\ [][NextResolver]_vars /\ WF_vars(NextResolver)

(***************************************************************************)
(* Claims about the Google Drive resolver                                  *)
(***************************************************************************)
Priority(p) ==
    CASE p = "EXPORT" -> 1
      [] p = "FORM" -> 2
      [] p = "URL" -> 3
      [] p = "ERROR" -> 4

PatternsIn(contents) == UNION {contents[i] : i \in 1..Len(contents)}

\* C11: the pattern that decides a page is the one of highest priority among
\* the patterns found anywhere in the page (Docs-export link, form action,
\* JSON downloadUrl, error caption), whatever lines they are on; an error
\* caption decides only a page that holds no URL pattern.
C11_PriorityOverBody ==
    (rs.pc = "scanned" /\ PatternsIn(rs.res.text) # {}) =>
        /\ rs.found.by \in PatternsIn(rs.res.text)
        /\ \A p \in PatternsIn(rs.res.text) : Priority(rs.found.by) <= Priority(p)

Terminal == rs.pc \in {"DirectDownload", "Denied", "raised"}
Writable(path) == path \in {"None", "cookies.json"}

\* the response of the request counted last is a page without any of the
\* three URL patterns
DenialPage ==
    /\ rs.requests >= 1
    /\ rs.res.n = rs.requests
    /\ ~rs.res.disposition
    /\ PatternsIn(rs.res.text) \cap UrlPatterns = {}

FirstCaption(contents) ==
    LET captioned == {i \in 1..Len(contents) : "ERROR" \in contents[i]}
    IN  Caption(CHOOSE i \in captioned : \A j \in captioned : i <= j)

DeniedAtOnce ==
    /\ rs.pc = "Denied"
    /\ rs.reason = IF "ERROR" \in PatternsIn(rs.res.text)
                   THEN FirstCaption(rs.res.text) ELSE PrivateOrLimit

MaxListing == 2     \* entries of a directory listing
MaxEntries == 2     \* entries of a repository archive

EntryKeys == {"type", "name", "download_url"}
Listings ==
    SeqsUpTo([keys : {EntryKeys, {"type", "name"}}, type : {"file", "dir"},
              name : {<<"a", ".json">>, <<"b", ".txt">>}], MaxListing)
FileTypes == {<<>>, <<".json">>}
endswith(s, t) == Len(t) <= Len(s) /\ SubSeq(s, Len(s) - Len(t) + 1, Len(s)) = t

\* the mutant of Eligible that ignores the file type
Eligible_without_file_type(file, file_type) ==
    /\ \A n \in EntryKeys : n \in file.keys
    /\ file.type = "file"

\* the two tests of the loop over the listing
Eligible(file, file_type) ==
    /\ \A n \in EntryKeys : n \in file.keys
    /\ ~(file.type # "file" \/ (file_type # <<>> /\ ~endswith(file.name, file_type)))

\* how a call wrapped by `handler or default` ends, given how the request
\* itself would end: applying gh_request_handler_authenticated raises
\* NameError before any request
Handled(handler, token, outcome) ==
    IF handler = "none" /\ default_handler(token) = "gh_request_handler_authenticated"
        THEN "NameError"
        ELSE outcome

\* the mutant of AfterListing that lets the failure of the listing propagate
AfterListing_raises(call, outcome, data) ==
    IF outcome # "ok" THEN [call EXCEPT !.pc = "raised", !.listing = outcome, !.err = outcome]
    ELSE [call EXCEPT !.pc = IF data = <<>> THEN "done" ELSE "files",
                      !.listing = outcome, !.data = data]

\* the try block around gh_get_data_json
AfterListing(call, outcome, data) ==
    IF outcome = "RequestException" THEN [call EXCEPT !.pc = "done", !.listing = outcome]
    ELSE IF outcome # "ok" THEN [call EXCEPT !.pc = "raised", !.listing = outcome, !.err = outcome]
    ELSE [call EXCEPT !.pc = IF data = <<>> THEN "done" ELSE "files",
                      !.listing = outcome, !.data = data]

\* one pass of the loop over the listing, and the return after the last one
AfterFile(call, outcome) ==
    LET file == call.data[call.i]
        on == [call EXCEPT !.i = @ + 1,
                           !.pc = IF call.i = Len(call.data) THEN "done" ELSE "files"]
        called == [on EXCEPT !.tried = Append(@, call.i), !.outcomes = Append(@, outcome)]
    IN  IF ~Eligible(file, call.file_type) THEN [on EXCEPT !.outcomes = Append(@, "skipped")]
        ELSE IF outcome = "ok" THEN [called EXCEPT !.files = Append(@, [parent |-> "path", name |-> file.name])]
        ELSE IF outcome = "RequestException" THEN called
        ELSE [called EXCEPT !.pc = "raised", !.err = outcome]

gh_download_directory_files_call ==
    /\ gh.pc = "idle"
    /\ \E token \in BOOLEAN, handler \in {"none", "custom"}, file_type \in FileTypes :
          gh' = [IdleFlow EXCEPT !.pc = "listing", !.fn = "gh_download_directory_files",
                                 !.token = token, !.handler = handler, !.file_type = file_type]
    /\ UNCHANGED <<dlVars, gateVars, rs, ar>>

\* gh_get_data_json(url, header, auth_token, handler) returns or raises
gh_listing ==
    /\ gh.pc = "listing"
    /\ \E served \in Outcomes("gh_get_data_json"), data \in Listings :
          /\ served # "ok" => data = <<>>
          /\ gh' = AfterListing(gh, Handled(gh.handler, gh.token, served), data)
    /\ UNCHANGED <<dlVars, gateVars, rs, ar>>

\* the next entry: gh_download_file(url, path, header, chunk_size, handler),
\* called without auth_token, returns or raises
gh_directory_file ==
    /\ gh.pc = "files"
    /\ \E served \in Outcomes("gh_download_file") :
          /\ ~Eligible(gh.data[gh.i], gh.file_type) => served = "ok"
          /\ gh' = AfterFile(gh, Handled(gh.handler, FALSE, served))
    /\ UNCHANGED <<dlVars, gateVars, rs, ar>>

\* archive names over two characters, and the texts of repo and branch
Names == SeqsUpTo({"m", "/"}, 2) \ {<<>>}
Archives == SeqsUpTo(Names, MaxEntries)
Repo == <<"r">>
Branch == <<"b">>

\* the mutant of repo_name that never reads the archive
repo_name_by_convention(names, repo, branch) == repo \o <<"-">> \o branch

\* _repo_name after the with block
repo_name(names, repo, branch) ==
    IF names # <<>> THEN SplitFirst(names[1], "/") ELSE repo \o <<"-">> \o branch

\* what follows gh_download_file in gh_download_repository: the archive is
\* opened, listed and extracted, the temporary file removed
AfterArchive(call, outcome, names, is_zip) ==
    IF outcome # "ok"
        THEN [call EXCEPT !.pc = "raised", !.err = outcome, !.temp_file = (outcome = "OSError")]
    ELSE IF ~is_zip
        THEN [call EXCEPT !.pc = "raised", !.err = "BadZipFile", !.temp_file = TRUE]
    ELSE [call EXCEPT !.pc = "done", !.archive = names, !.extracted = TRUE,
                      !.temp_file = FALSE,
                      !.result = [parent |-> "path", name |-> repo_name(names, Repo, Branch)]]

gh_download_repository_call ==
    /\ gh.pc = "idle"
    /\ \E token \in BOOLEAN, handler \in {"none", "custom"} :
          gh' = [IdleFlow EXCEPT !.pc = "archive", !.fn = "gh_download_repository",
                                 !.token = token, !.handler = handler]
    /\ UNCHANGED <<dlVars, gateVars, rs, ar>>

\* gh_download_file of temp.zip returns or raises, and the rest of the call
gh_repository_archive ==
    /\ gh.pc = "archive"
    /\ \E served \in Outcomes("gh_download_file"), names \in Archives, is_zip \in BOOLEAN :
          /\ (served # "ok" \/ ~is_zip) => names = <<>>
          /\ served # "ok" => is_zip
          /\ gh' = AfterArchive(gh, Handled(gh.handler, gh.token, served), names, is_zip)
    /\ UNCHANGED <<dlVars, gateVars, rs, ar>>

InitRetrieval ==
    /\ fs = [p \in Paths |-> NoFile]
    /\ dl = IdleCall
    /\ GateIdle
    /\ FlowIdle

NextRetrieval ==
    \/ gh_download_directory_files_call
    \/ gh_listing
    \/ gh_directory_file
    \/ gh_download_repository_call
    \/ gh_repository_archive

SpecRetrieval == InitRetrieval /\ [][NextRetrieval]_vars

(***************************************************************************)
(* Claims about the GitHub retrieval flows                                 *)
(***************************************************************************)
\* an entry the call is to download: it has the three keys, is a file, and
\* its name ends with the file type when one is given
Wanted(file, file_type) ==
    /\ EntryKeys \subseteq file.keys
    /\ file.type = "file"
    /\ file_type # <<>> =>
          \E k \in 0..Len(file.name) : SubSeq(file.name, 1, k) \o file_type = file.name

\* the paths of the entries k.. of the listing that are wanted and whose
\* download succeeded, in listing order
RECURSIVE Kept(_, _, _, _)
Kept(data, outcomes, file_type, k) ==
    IF k > Len(outcomes) THEN <<>>
    ELSE (IF Wanted(data[k], file_type) /\ outcomes[k] = "ok"
              THEN <<[parent |-> "path", name |-> data[k].name]>> ELSE <<>>)
         \o Kept(data, outcomes, file_type, k + 1)

\* C15: gh_download_directory_files, when every download it calls succeeds
\* or fails with a request failure, does not raise and returns the paths of
\* the eligible entries whose download succeeded, in listing order; it calls
\* the download once per eligible entry and never for another entry.
C15_DirectoryResult ==
    (/\ gh.fn = "gh_download_directory_files"
     /\ gh.listing = "ok"
     /\ \A k \in 1..Len(gh.outcomes) : gh.outcomes[k] \in {"ok", "RequestException", "skipped"}) =>
        /\ gh.pc # "raised"
        /\ gh.files = Kept(gh.data, gh.outcomes, gh.file_type, 1)
        /\ gh.tried = SelectSeq([k \in 1..Len(gh.outcomes) |-> k],
                                LAMBDA k : Wanted(gh.data[k], gh.file_type))

\* of two eligible entries the first download failed with a request failure
\* and the second succeeded: the call returned the second path
C15_Witness ==
    /\ gh.fn = "gh_download_directory_files" /\ gh.pc = "done"
    /\ gh.file_type = <<".json">>
    /\ gh.outcomes = <<"RequestException", "ok">>
    /\ gh.files = <<[parent |-> "path", name |-> <<"a", ".json">>]>>

\* C16: a failure of one file's download, of any kind, does not end
\* gh_download_directory_files: the call goes on to the remaining entries
\* and returns. Stated for calls given a handler of their own.
C16_FailureContained ==
    (gh.fn = "gh_download_directory_files" /\ gh.handler = "custom" /\ gh.listing = "ok") =>
        gh.pc # "raised"

\* C17: when the listing request of gh_download_directory_files fails, the
\* call returns the empty list, raises nothing and calls no download.
C17_ListingFailure ==
    (gh.fn = "gh_download_directory_files" /\ gh.listing = "RequestException") =>
        /\ gh.pc = "done"
        /\ gh.err = "none"
        /\ gh.files = <<>>
        /\ gh.tried = <<>>

\* the listing of a call with a token and the default handler failed
C17_Witness ==
    /\ gh.fn = "gh_download_directory_files"
    /\ gh.handler = "none" /\ gh.token
    /\ gh.listing = "RequestException"
    /\ gh.pc = "done"

\* C18: gh_download_repository, once it has returned, has removed temp.zip
\* and returns path/<the text of the first entry's name before its first
\* "/"> for an archive with entries, path/"{repo}-{branch}" for one without.
C18_RepositoryPath ==
    (gh.fn = "gh_download_repository" /\ gh.pc = "done") =>
        /\ ~gh.temp_file
        /\ gh.extracted
        /\ gh.result.parent = "path"
        /\ gh.archive = <<>> => gh.result.name = <<"r", "-", "b">>
        /\ gh.archive # <<>> =>
              LET first == gh.archive[1]
                  seg == gh.result.name
              IN  /\ Len(seg) <= Len(first)
                  /\ seg = SubSeq(first, 1, Len(seg))
                  /\ \A j \in 1..Len(seg) : seg[j] # "/"
                  /\ Len(seg) < Len(first) => first[Len(seg) + 1] = "/"

\* the first entry of the archive is "m/" and the call returned path/"m"
C18_Witness ==
    /\ gh.fn = "gh_download_repository" /\ gh.pc = "done"
    /\ Len(gh.archive) = 2
    /\ gh.archive[1] = <<"m", "/">>
    /\ gh.result = [parent |-> "path", name |-> <<"m">>]

(***************************************************************************)
(* The archive unpacker (omnitils/files/archive.py)                        *)
(*                                                                         *)
(* A path is the sequence of the parts of its file name: <<"a", ".tar",    *)
(* ".gz">> is a.tar.gz. Each call unpacks a file of its own.               *)
(***************************************************************************)
ArchivePaths ==
    {<<"a">>}
    \cup {<<"a", s>> : s \in {".zip", ".gz", ".xz", ".bz2", ".7z", ".tar", ".txt"}}
    \cup {<<"a", ".tar", s>> : s \in {".gz", ".xz", ".bz2", ".7z"}}

\* Path.suffix: the last part of the name, from its last dot on
path_suffix(path) == IF Len(path) > 1 THEN path[Len(path)] ELSE ""

\* Path.with_suffix(""): the path without its last suffix
with_suffix(path) == IF Len(path) > 1 THEN SubSeq(path, 1, Len(path) - 1) ELSE path

action_map ==
    (".zip" :> "unpack_zip") @@ (".gz" :> "unpack_gz") @@ (".xz" :> "unpack_xz")
    @@ (".bz2" :> "unpack_bz2") @@ (".tar.gz" :> "unpack_tar") @@ (".tar.xz" :> "unpack_tar")
    @@ (".tar.bz2" :> "unpack_tar") @@ (".tar.7z" :> "unpack_tar_7z") @@ (".7z" :> "unpack_7z")

Parent == [kind |-> "directory", path |-> <<>>]
Raised(call, err) == [call EXCEPT !.pc = "raised", !.err = err]

\* what the system answers an extraction with: whether shutil.which finds
\* 7z or 7za, how the tool run ends, whether the library reads the archive,
\* and whether the 7z layer of a .tar.7z left the tar file behind
Environments ==
    [exe : BOOLEAN, tool : {"ok", "RuntimeError", "OSError"}, readable : BOOLEAN, tar : BOOLEAN]

\* the mutant of unpack_7z that looks for the tool before it looks at the file
unpack_7z_without_check(call, env) ==
    LET ran == IF env.exe THEN [call EXCEPT !.tools = @ + 1, !.tool = env.tool] ELSE call
        py == [ran EXCEPT !.library = @ + 1]
    IN  IF env.exe /\ env.tool = "ok" /\ call.file.exists
            THEN [ran EXCEPT !.outputs = @ \cup {"members"}, !.result = Parent]
        ELSE IF env.readable /\ call.file.exists
            THEN [py EXCEPT !.outputs = @ \cup {"members"}, !.result = Parent]
        ELSE Raised(py, "FileNotFoundError")

\* the mutant of unpack_7z that runs the library whatever the tool did
unpack_7z_always_library(call, env) ==
    LET ran == IF env.exe THEN [call EXCEPT !.tools = @ + 1, !.tool = env.tool] ELSE call
        py == [ran EXCEPT !.library = @ + 1]
    IN  IF ~call.file.exists THEN Raised(call, "FileNotFoundError")
        ELSE IF env.readable
            THEN [py EXCEPT !.outputs = @ \cup {"members"}, !.result = Parent]
        ELSE Raised(py, "ArchiveError")

\* unpack_7z: the tool when one is found, the library when none is found or
\* its run failed
unpack_7z(call, env) ==
    LET ran == IF env.exe THEN [call EXCEPT !.tools = @ + 1, !.tool = env.tool] ELSE call
        py == [ran EXCEPT !.library = @ + 1]
    IN  IF ~call.file.exists THEN Raised(call, "FileNotFoundError")
        ELSE IF env.exe /\ env.tool = "ok"
            THEN [ran EXCEPT !.outputs = @ \cup {"members"}, !.result = Parent]
        ELSE IF env.readable
            THEN [py EXCEPT !.outputs = @ \cup {"members"}, !.result = Parent]
        ELSE Raised(py, "ArchiveError")

\* unpack_zip and unpack_tar: extractall into the parent directory
unpack_members(call, env) ==
    IF ~call.file.exists THEN Raised(call, "FileNotFoundError")
    ELSE IF env.readable
        THEN [call EXCEPT !.outputs = @ \cup {"members"}, !.result = Parent]
    ELSE Raised(call, "ArchiveError")

\* unpack_gz, unpack_xz, unpack_bz2: the output file is opened for writing,
\* then the decompressed bytes are copied into it
unpack_file(call, env) ==
    LET opened == [call EXCEPT !.outputs = @ \cup {"file"}]
    IN  IF ~call.file.exists THEN Raised(call, "FileNotFoundError")
        ELSE IF env.readable
            THEN [opened EXCEPT !.result = [kind |-> "file", path |-> with_suffix(call.path)]]
        ELSE Raised(opened, "ArchiveError")

\* unpack_tar_7z: the 7z layer, the tar layer, then the tar file is unlinked
unpack_tar_7z(call, env) ==
    LET outer == unpack_7z(call, env)
    IN  IF ~call.file.exists THEN Raised(call, "FileNotFoundError")
        ELSE IF outer.pc = "raised" THEN outer
        ELSE IF ~env.tar THEN Raised(outer, "FileNotFoundError")
        ELSE [outer EXCEPT !.outputs = @ \cup {"tar members"}]

\* action(path) for the action the table gives
Action(call, env) ==
    LET action == call.action
    IN  CASE action = "unpack_7z" -> unpack_7z(call, env)
          [] action = "unpack_tar_7z" -> unpack_tar_7z(call, env)
          [] action \in {"unpack_zip", "unpack_tar"} -> unpack_members(call, env)
          [] OTHER -> unpack_file(call, env)

\* the mutant of Dispatch that removes a file it does not unpack
Dispatch_removes(call) ==
    IF path_suffix(call.path) \notin DOMAIN action_map
        THEN [call EXCEPT !.pc = "done", !.result = [kind |-> "None", path |-> <<>>],
                          !.file = IF call.remove THEN NoFile ELSE @]
        ELSE [call EXCEPT !.pc = "lock", !.action = action_map[path_suffix(call.path)]]

\* the test on path.suffix that opens unpack_archive
Dispatch(call) ==
    IF path_suffix(call.path) \notin DOMAIN action_map
        THEN [call EXCEPT !.pc = "done", !.result = [kind |-> "None", path |-> <<>>]]
        ELSE [call EXCEPT !.pc = "lock", !.action = action_map[path_suffix(call.path)]]

\* the mutant of AfterAction that unlinks the archive of a failed extraction
AfterAction_removes_on_error(call) ==
    IF call.pc = "raised" THEN [call EXCEPT !.file = IF call.remove THEN NoFile ELSE @]
    ELSE [call EXCEPT !.pc = "done", !.file = IF call.remove THEN NoFile ELSE @]

\* what follows the with block: the archive is unlinked, the output returned
AfterAction(call) ==
    IF call.pc = "raised" THEN call
    ELSE [call EXCEPT !.pc = "done", !.file = IF call.remove THEN NoFile ELSE @]

\* unpack_archive(path, remove) is called by thread t without a lock of its
\* own, on a file that exists or not
unpack_archive_call(t) ==
    /\ ar.call[t].pc = "idle"
    /\ \E path \in ArchivePaths, remove \in BOOLEAN, file \in {NoFile, File(<<1>>)} :
          ar' = [ar EXCEPT !.call[t] =
                    Dispatch([IdleUnpack EXCEPT !.path = path, !.remove = remove,
                                                !.pre = file, !.file = file])]
    /\ UNCHANGED <<dlVars, gateVars, rs, gh>>

\* the mutant of acquire that enters the with block whoever holds the lock
acquire_held(t) ==
    /\ ar.call[t].pc = "lock"
    /\ ar' = [ar EXCEPT !.lock = t,
                        !.call[t] = [@ EXCEPT !.pc = "action", !.took_lock = TRUE]]
    /\ UNCHANGED <<dlVars, gateVars, rs, gh>>

\* with thread_lock: the lock is acquired once it is free
acquire(t) ==
    /\ ar.call[t].pc = "lock"
    /\ ar.lock = "free"
    /\ ar' = [ar EXCEPT !.lock = t,
                        !.call[t] = [@ EXCEPT !.pc = "action", !.took_lock = TRUE]]
    /\ UNCHANGED <<dlVars, gateVars, rs, gh>>

\* the mutant of run_action that keeps the lock when the action raised
run_action_keeps_lock(t) ==
    /\ ar.call[t].pc = "action"
    /\ \E env \in Environments :
          LET after == AfterAction(Action(ar.call[t], env))
          IN  ar' = [ar EXCEPT !.lock = IF after.pc = "raised" THEN t ELSE "free",
                              !.call[t] = after]
    /\ UNCHANGED <<dlVars, gateVars, rs, gh>>

\* the action runs and the with block is left, which releases the lock also
\* when the action raised; then the rest of unpack_archive
run_action(t) ==
    /\ ar.call[t].pc = "action"
    /\ \E env \in Environments :
          ar' = [ar EXCEPT !.lock = "free",
                           !.call[t] = AfterAction(Action(ar.call[t], env))]
    /\ UNCHANGED <<dlVars, gateVars, rs, gh>>

InitUnpack ==
    /\ fs = [p \in Paths |-> NoFile]
    /\ dl = IdleCall
    /\ GateIdle
    /\ FlowIdle

NextUnpack ==
    \E t \in Threads :
        \/ unpack_archive_call(t)
        \/ acquire(t)
        \/ run_action(t)

\* a thread that can take the free lock, or that is inside its action, goes on
SpecUnpack ==
    /\ InitUnpack
    /\ [][NextUnpack]_vars
    /\ \A t \in Threads : WF_vars(acquire(t)) /\ WF_vars(run_action(t))

(***************************************************************************)
(* Claims about the archive unpacker                                       *)
(***************************************************************************)
Called(t) == ar.call[t].pc # "idle"

\* C19: unpack_archive on a path whose suffix the table does not hold
\* returns None without taking the lock and without running any extraction,
\* and leaves the file as it was, whatever remove is.
C19_UnknownSuffix ==
    \A t \in Threads :
        (Called(t) /\ path_suffix(ar.call[t].path) \notin
                          {".zip", ".gz", ".xz", ".bz2", ".7z", ".tar.gz", ".tar.xz", ".tar.bz2", ".tar.7z"}) =>
            /\ ar.call[t].pc = "done"
            /\ ar.call[t].result.kind = "None"
            /\ ~ar.call[t].took_lock /\ ar.lock # t
            /\ ar.call[t].tools = 0 /\ ar.call[t].library = 0 /\ ar.call[t].outputs = {}
            /\ ar.call[t].file = ar.call[t].pre

\* a.txt exists and is to be removed: the call returned None and it is there
C19_Witness ==
    \E t \in Threads :
        /\ ar.call[t].path = <<"a", ".txt">> /\ ar.call[t].remove
        /\ ar.call[t].pre = File(<<1>>)
        /\ ar.call[t].pc = "done"
        /\ ar.call[t].file = File(<<1>>)

C21_OneExtraction ==
    /\ \A t \in Threads : ar.call[t].pc = "action" => ar.lock = t
    /\ \A t, u \in Threads :
          (ar.call[t].pc = "action" /\ ar.call[u].pc = "action") => t = u

\* one thread is inside its action while the other waits for the lock
C21_Witness ==
    \E t, u \in Threads :
        /\ ar.call[t].pc = "action" /\ ar.lock = t
        /\ ar.call[u].pc = "lock"

EndsWith(path, parts) ==
    Len(path) >= Len(parts) /\ SubSeq(path, Len(path) - Len(parts) + 1, Len(path)) = parts

\* C22: a path ending .tar.gz, .tar.xz or .tar.bz2 is unpacked by the tar
\* action and a path ending .tar.7z by the two-stage action, never by the
\* single-layer gzip, xz, bzip2 or 7z action.
C22_FullSuffix ==
    \A t \in Threads :
        Called(t) =>
            /\ (\E z \in {".gz", ".xz", ".bz2"} : EndsWith(ar.call[t].path, <<".tar", z>>)) =>
                   ar.call[t].action = "unpack_tar"
            /\ EndsWith(ar.call[t].path, <<".tar", ".7z">>) =>
                   ar.call[t].action = "unpack_tar_7z"

\* C23: unpack_7z on an existing archive runs the 7-Zip tool first whenever
\* one is found; the library runs exactly when no tool was found or the tool
\* run failed, at most once, and never after a tool run that succeeded.
C23_ToolThenLibrary ==
    \A t \in Threads :
        (/\ ar.call[t].action = "unpack_7z"
         /\ ar.call[t].pre.exists
         /\ ar.call[t].pc \in {"done", "raised"}) =>
            /\ ar.call[t].tools <= 1 /\ ar.call[t].library <= 1
            /\ ar.call[t].library = 1 <=>
                   (ar.call[t].tools = 0 \/ ar.call[t].tool \in {"RuntimeError", "OSError"})
            /\ (ar.call[t].tools = 1 /\ ar.call[t].tool = "ok") =>
                   ar.call[t].library = 0 /\ ar.call[t].pc = "done"

\* the tool was found and its run failed: the library extracted a.7z
C23_Witness ==
    \E t \in Threads :
        /\ ar.call[t].path = <<"a", ".7z">>
        /\ ar.call[t].tools = 1 /\ ar.call[t].tool = "RuntimeError"
        /\ ar.call[t].library = 1
        /\ ar.call[t].pc = "done"

\* C26: once unpack_archive is over, the archive is gone exactly when remove
\* was true and the extraction action ended without error; otherwise the
\* file is as it was.
C26_RemoveOnSuccess ==
    \A t \in Threads :
        ar.call[t].pc \in {"done", "raised"} =>
            IF ar.call[t].remove /\ ar.call[t].pc = "done" /\ ar.call[t].action # "none"
                THEN ar.call[t].pre.exists /\ ~ar.call[t].file.exists
                ELSE ar.call[t].file = ar.call[t].pre

\* one archive was unpacked and removed; the extraction of another one,
\* also to be removed, raised and that archive is still there
C26_Witness ==
    \E t, u \in Threads :
        /\ ar.call[t].remove /\ ar.call[t].pc = "done" /\ ar.call[t].pre.exists
        /\ ~ar.call[t].file.exists
        /\ ar.call[u].remove /\ ar.call[u].pc = "raised" /\ ar.call[u].err = "ArchiveError"
        /\ ar.call[u].file.exists

\* C27: no call keeps the lock once its with block is left, by return or by
\* error, and a thread that waits for the lock gets it.
C27_LockReleased ==
    /\ [](\A t \in Threads : ar.lock = t => ar.call[t].pc = "action")
    /\ \A t \in Threads : (ar.call[t].pc = "lock") ~> (ar.call[t].took_lock)

\* the extraction of one thread raised, and the other thread, which called
\* meanwhile, is inside its action with the lock
C27_Witness ==
    \E t, u \in Threads :
        /\ ar.call[t].pc = "raised" /\ ar.call[t].took_lock
        /\ ar.call[u].pc = "action" /\ ar.lock = u

(***************************************************************************)
(* gh_download_repository beside a thread that calls unpack_archive        *)
(***************************************************************************)
NextShared ==
    \/ gh_download_repository_call
    \/ gh_repository_archive
    \/ unpack_archive_call("t1")
    \/ acquire("t1")
    \/ run_action("t1")

SpecShared == InitUnpack /\ [][NextShared]_vars

\* C25: gh_download_repository extracts under the shared archive lock, so
\* its extraction never runs while a thread that called unpack_archive with
\* the default lock is inside its extraction action.
C25_NoOverlap ==
    [][(gh'.extracted /\ ~gh.extracted) =>
           (\A t \in Threads : ar.call[t].pc # "action" /\ ar.lock # t)]_vars

(***************************************************************************)
(* The request attempts of the GitHub handlers against the quota           *)
(***************************************************************************)
\* the request attempts issued on a limit inside the window that ends at a time
IssuedInWindow(limit, timestamp) ==
    Sum(issued[limit], {at \in 0..MaxTime : at >= timestamp - Window /\ at <= timestamp})

\* C24: every request attempt made through a GitHub handler, the retries of
\* one call included, has a hit of its own registered on the quota, so the
\* attempts issued inside any one window never exceed the quota's maximum.
C24_AttemptsWithinQuota ==
    \A l \in Limits :
        /\ \A end \in 0..MaxTime : IssuedInWindow(l, end) <= Amount(l)
        /\ Sum(issued[l], 0..MaxTime) <= Sum(hits[l], 0..MaxTime)

(***************************************************************************)
(* Claims about the destination, the Range header and the resume check     *)
(***************************************************************************)
\* C28: gdrive_download_file touches the destination only once the whole
\* stream has been written to the temporary file without error; a run that
\* fails (resolver denied, HTTP error status, truncated stream) returns no
\* path, leaves the destination as it was and the temporary file on disk.
C28_DestinationLast ==
    dl.fn = "gdrive_download_file" =>
        /\ fs["path"] # dl.dest_pre =>
               /\ dl.pc = "returned" /\ dl.result = "path"
               /\ dl.served = dl.body /\ ~dl.empty_seen
        /\ (dl.pc = "returned" /\ dl.result = "path") =>
               /\ dl.served = dl.body /\ ~dl.empty_seen
               /\ fs["path"].exists /\ ~fs[dl.target].exists
        /\ (dl.pc = "returned" /\ dl.result = "None") =>
               /\ dl.err \in {"Denied", "RequestException", "OSError", "ValueError"}
               /\ fs["path"] = dl.dest_pre
               /\ fs[dl.target].exists
        /\ dl.pc = "raised" => fs["path"] = dl.dest_pre

\* the stream broke after one chunk was written: no path is returned, the
\* file at the destination is the one that was there, the temporary file stays
C28_Witness ==
    /\ dl.fn = "gdrive_download_file" /\ dl.pc = "returned" /\ dl.result = "None"
    /\ dl.err = "OSError" /\ dl.chunks = 1
    /\ dl.dest_pre.exists /\ fs["path"] = dl.dest_pre
    /\ fs[dl.target].exists

\* C29: the request of gdrive_download_file carries a Range header exactly
\* when the temporary file it is about to write is not empty, and the value
\* is then 'bytes=<size>-', whatever header map the caller supplied.
C29_RangeBySize ==
    (dl.fn = "gdrive_download_file" /\ dl.err # "FileNotFoundError") =>
        IF Len(dl.pre.data) > 0
            THEN IsRange(dl.sent, Len(dl.pre.data))
            ELSE "Range" \notin DOMAIN dl.sent

\* a Range value of the form 'bytes=N-...': the start N, or -1
RangeStart(v) ==
    IF Len(v) > 6 /\ SubSeq(v, 1, 6) = BytesEq /\ (\E i \in 7..Len(v) : v[i] = "-")
        THEN LET dash == CHOOSE i \in 7..Len(v) : v[i] = "-" /\ \A j \in 7..(i - 1) : v[j] # "-"
                 start == SubSeq(v, 7, dash - 1)
             IN  IF IntParses(start) THEN IntValue(start) ELSE -1
        ELSE -1

\* C30: check_resume_file is total: True exactly when the header map has a
\* Range value 'bytes=N-...' and the file exists with N bytes, False without
\* raising for every other header map and Range value.
C30_Total ==
    (dl.fn = "download_file" /\ dl.pc # "idle") =>
        check_resume_file(dl.pre, dl.header) =
            IF /\ "Range" \in DOMAIN dl.header
               /\ dl.pre.exists
               /\ RangeStart(dl.header["Range"]) = Len(dl.pre.data)
                THEN "True" ELSE "False"

====
